---- MODULE Spec2Model ----
(***************************************************************************)
(* Model of src/src/App.tsx (pricing calculator).                          *)
(*                                                                         *)
(* The file holds two variants of the App component.  The autosave variant *)
(* (lines 649-1037) is modelled by Spec: the Draft (current), the saved    *)
(* collection (savedItems, mirrored in savedItemsRef and in localStorage), *)
(* the debounced copy of the Draft (useDebounceValue, 15000 ms) and the    *)
(* effect that defers upsertItem with setTimeout(..., 0).                  *)
(*                                                                         *)
(* Encoding of JavaScript values                                           *)
(*   - a number n of the program is the integer 100*n (two decimals of     *)
(*     fixed point): 0.25 is 25, 3 is 300;                                 *)
(*   - a name or an input string is the sequence of its characters;       *)
(*   - an id is a string, "" being the empty id; nanoid() returns the     *)
(*     ids "n1", "n2", ... which never collide with a stored id;          *)
(*   - every object carries its identity in the field ref: React and      *)
(*     useDebounceValue compare Items with ===, so two Items with equal   *)
(*     fields but different ref are different objects.  ref is not        *)
(*     written by JSON.stringify.                                         *)
(***************************************************************************)
EXTENDS Integers, Sequences, FiniteSets, TLC

VARIABLES
    storage,           \* localStorage[STORAGE_KEY]
    current,           \* useState current (the Draft)
    savedItems,        \* useState savedItems (render-facing Collection)
    savedItemsRef,     \* savedItemsRef.current (mirror read by upsertItem)
    debouncedCurrent,  \* state held by useDebounceValue
    hasMounted,        \* hasMounted.current
    debouncePending,   \* the 15000 ms debounce timer is armed
    lastArgs,          \* value the armed debounce timer will deliver
    timerPending,      \* the effect's setTimeout(..., 0) is armed
    timerItem,         \* debouncedCurrent captured by that timeout's closure
    nextRef,           \* next object identity to allocate
    nanoCount,         \* number of nanoid() calls made so far
    ops,               \* number of user interactions so far (bounded)
    curOrigin,         \* history: which handler produced current
    editRefs,          \* history: refs of the Drafts made by the edit handlers
    autosaved,         \* history: the deferred callback's calls of upsertItem, in order
    superseded,        \* history: refs of edited Drafts replaced by a later edit while the debounce timer was armed
    abandoned,         \* history: refs of edited Drafts replaced by New item / load while the debounce timer was armed
    deletedCur,        \* history: ids deleted while they were the Draft's id
    input,             \* arguments of the function under test (function specifications)
    output,            \* history: the calls made of the function under test
    newItemDraft,      \* manual-save variant: the Item edited in the creation dialog
    dialogOpen         \* manual-save variant: whether the creation dialog is shown

vars == <<storage, current, savedItems, savedItemsRef, debouncedCurrent,
          hasMounted, debouncePending, lastArgs, timerPending, timerItem,
          nextRef, nanoCount, ops, curOrigin, editRefs, autosaved, superseded,
          abandoned, deletedCur, input, output, newItemDraft, dialogOpen>>

(***************************************************************************)
(* Bounds                                                                  *)
(***************************************************************************)
MaxOps == 2        \* user interactions per session
MaxStored == 2     \* elements of the stored array at session start
MaxCalls == 2      \* repeated calls of a function under test
MaxAmount == 2     \* largest whole number given to calculateTotals

(***************************************************************************)
(* Strings                                                                 *)
(***************************************************************************)
Upper == <<"A","B","C","D","E","F","G","H","I","J","K","L","M",
           "N","O","P","Q","R","S","T","U","V","W","X","Y","Z">>
Lower == <<"a","b","c","d","e","f","g","h","i","j","k","l","m",
           "n","o","p","q","r","s","t","u","v","w","x","y","z">>

Untitled == <<"U","n","t","i","t","l","e","d">>
untitled == <<"u","n","t","i","t","l","e","d">>

\* String.prototype.toLowerCase
toLowerCase(s) ==
    [i \in 1..Len(s) |->
        IF \E k \in 1..Len(Upper) : Upper[k] = s[i]
        THEN Lower[CHOOSE k \in 1..Len(Upper) : Upper[k] = s[i]]
        ELSE s[i]]

\* String.prototype.trim
RECURSIVE trimStart(_)
trimStart(s) == IF s # <<>> /\ Head(s) = " " THEN trimStart(Tail(s)) ELSE s
RECURSIVE trimEnd(_)
trimEnd(s) ==
    IF s # <<>> /\ s[Len(s)] = " " THEN trimEnd(SubSeq(s, 1, Len(s) - 1)) ELSE s
trim(s) == trimEnd(trimStart(s))

(***************************************************************************)
(* Values of a numeric field that are not finite numbers.  They are        *)
(* encoded as integers far above every number the model computes: Infinity *)
(* and -Infinity (JSON.parse gives Infinity for a literal such as 1e999),  *)
(* NaN, null (a JSON null) and undefined (an absent property).             *)
(***************************************************************************)
Infinity == 1000000000
NegInfinity == 0 - 1000000000
NaN == 999999999
null == 999999998
undefined == 999999997

(***************************************************************************)
(* Number(value): decimal strings with an optional sign and at most two    *)
(* fraction digits give a number (scaled by 100), "Infinity" with an       *)
(* optional sign gives an infinity, the empty string gives 0, every other  *)
(* string used in the model gives NaN (nan = TRUE).                        *)
(***************************************************************************)
Digits == <<"0","1","2","3","4","5","6","7","8","9">>
IsDigit(c) == \E d \in 1..10 : Digits[d] = c
DigitVal(c) == (CHOOSE d \in 1..10 : Digits[d] = c) - 1

RECURSIVE DigitsVal(_)
DigitsVal(s) ==
    IF s = <<>> THEN 0 ELSE 10 * DigitsVal(SubSeq(s, 1, Len(s) - 1)) + DigitVal(s[Len(s)])

AllDigits(s) == \A i \in 1..Len(s) : IsDigit(s[i])

Unsigned(s) ==
    LET dots == {i \in 1..Len(s) : s[i] = "."} IN
    IF s = <<>> THEN [nan |-> TRUE, val |-> 0]
    ELSE IF s = <<"I","n","f","i","n","i","t","y">> THEN [nan |-> FALSE, val |-> Infinity]
    ELSE IF dots = {} THEN
        IF AllDigits(s) THEN [nan |-> FALSE, val |-> 100 * DigitsVal(s)]
        ELSE [nan |-> TRUE, val |-> 0]
    ELSE
        LET d == CHOOSE i \in dots : TRUE
            int == SubSeq(s, 1, d - 1)
            frac == SubSeq(s, d + 1, Len(s))
        IN IF Cardinality(dots) = 1 /\ AllDigits(int) /\ AllDigits(frac)
              /\ Len(int) + Len(frac) > 0 /\ Len(frac) <= 2
           THEN [nan |-> FALSE,
                 val |-> 100 * DigitsVal(int)
                         + (IF Len(frac) = 1 THEN 10 * DigitsVal(frac) ELSE DigitsVal(frac))]
           ELSE [nan |-> TRUE, val |-> 0]

Number(s) ==
    IF s = <<>> THEN [nan |-> FALSE, val |-> 0]
    ELSE IF Head(s) = "-" THEN
        LET u == Unsigned(Tail(s)) IN [nan |-> u.nan, val |-> 0 - u.val]
    ELSE Unsigned(s)

\* Mutant: without `|| 0`.
NumberOrZero_keepsNaN(s) == LET n == Number(s) IN IF n.nan THEN NaN ELSE n.val

\* Mutant: a negative number is stored as 0.
NumberOrZero_clamps(s) == LET n == Number(s) IN IF n.nan \/ n.val <= 0 THEN 0 ELSE n.val

\* Number(value) || 0
NumberOrZero(s) == LET n == Number(s) IN IF n.nan \/ n.val = 0 THEN 0 ELSE n.val

(***************************************************************************)
(* Arithmetic of calculateTotals                                           *)
(***************************************************************************)
IsInf(x) == x \in {Infinity, NegInfinity}

\* ToNumber, applied by Math.max and by the arithmetic operators
ToNumber(v) == IF v = null THEN 0 ELSE IF v = undefined THEN NaN ELSE v

Sign(x) ==
    IF x = Infinity THEN 1 ELSE IF x = NegInfinity THEN 0 - 1
    ELSE IF x > 0 THEN 1 ELSE IF x < 0 THEN 0 - 1 ELSE 0

\* a * b (numbers scaled by 100: exact when one factor is a whole number)
Times(x, y) ==
    LET a == ToNumber(x)
        b == ToNumber(y)
    IN IF a = NaN \/ b = NaN THEN NaN
       ELSE IF IsInf(a) \/ IsInf(b)
            THEN IF Sign(a) * Sign(b) = 0 THEN NaN
                 ELSE IF Sign(a) * Sign(b) > 0 THEN Infinity ELSE NegInfinity
       ELSE (a * b) \div 100

\* a + b
Plus(x, y) ==
    LET a == ToNumber(x)
        b == ToNumber(y)
    IN IF a = NaN \/ b = NaN THEN NaN
       ELSE IF IsInf(a) /\ IsInf(b) THEN (IF a = b THEN a ELSE NaN)
       ELSE IF IsInf(a) THEN a
       ELSE IF IsInf(b) THEN b
       ELSE a + b

\* Math.max(0, v)
MathMax0(v) ==
    LET n == ToNumber(v)
    IN IF n = NaN THEN NaN
       ELSE IF n = Infinity THEN Infinity
       ELSE IF n = NegInfinity THEN 0
       ELSE IF n > 0 THEN n ELSE 0

\* Number.isFinite(value)
isFinite(v) == v \notin {NaN, Infinity, NegInfinity, null, undefined}

\* formatCurrency's argument of currency.format
formatCurrency(value) == IF isFinite(value) THEN value ELSE 0

(***************************************************************************)
(* Items                                                                   *)
(***************************************************************************)
PROFIT_OPTIONS == {20, 25, 30}

NumericField == {"quantity", "pricePerItem", "setupFee", "shipping"}

createEmptyItem(r) ==
    [ref |-> r, id |-> "", name |-> Untitled, quantity |-> 0, pricePerItem |-> 0,
     setupFee |-> 0, shipping |-> 0, profitPercent |-> 20]

\* What JSON.stringify keeps of an Item: its fields, not its identity.
Fields(item) ==
    [id |-> item.id, name |-> item.name, quantity |-> item.quantity,
     pricePerItem |-> item.pricePerItem, setupFee |-> item.setupFee,
     shipping |-> item.shipping, profitPercent |-> item.profitPercent]

NoItem == [ref |-> 0]

\* Mutant: the inputs are used as stored, without Math.max(0, ...).
calculateTotals_noClamp(item) ==
    LET subtotal == Plus(Plus(Times(item.quantity, item.pricePerItem), item.setupFee),
                         item.shipping)
        profitValue == Times(subtotal, item.profitPercent)
    IN [subtotal |-> subtotal, profitValue |-> profitValue,
        total |-> Plus(subtotal, profitValue)]

calculateTotals(item) ==
    LET qty == MathMax0(item.quantity)
        perItem == MathMax0(item.pricePerItem)
        setup == MathMax0(item.setupFee)
        shipping == MathMax0(item.shipping)
        subtotal == Plus(Plus(Times(qty, perItem), setup), shipping)
        profitValue == Times(subtotal, item.profitPercent)
        total == Plus(subtotal, profitValue)
    IN [subtotal |-> subtotal, profitValue |-> profitValue, total |-> total]

nanoid(n) == "n" \o ToString(n + 1)

\* Mutant: the name is compared as typed, without trim() and toLowerCase().
isEmpty_exactName(item) ==
    /\ item.id = ""
    /\ item.name = Untitled
    /\ item.quantity = 0
    /\ item.pricePerItem = 0
    /\ item.setupFee = 0
    /\ item.shipping = 0

\* the inline blank test of the autosave effect
isEmpty(item) ==
    /\ item.id = ""
    /\ toLowerCase(trim(item.name)) = untitled
    /\ item.quantity = 0
    /\ item.pricePerItem = 0
    /\ item.setupFee = 0
    /\ item.shipping = 0

(***************************************************************************)
(* Item Store                                                              *)
(***************************************************************************)
\* JSON.stringify of a number: NaN and the infinities are written as null
jsonNumber(v) == IF v \in {NaN, Infinity, NegInfinity} THEN null ELSE v

\* JSON.stringify of one Item
jsonItem(item) ==
    [Fields(item) EXCEPT !.quantity = jsonNumber(@), !.pricePerItem = jsonNumber(@),
                         !.setupFee = jsonNumber(@), !.shipping = jsonNumber(@),
                         !.profitPercent = jsonNumber(@)]

\* JSON.stringify(items): the stored text, kept as the JSON value it encodes
stringify(items) ==
    [kind |-> "array",
     elems |-> [i \in 1..Len(items) |-> [t |-> "object", f |-> jsonItem(items[i])]]]

\* e[k] as the spread and the property read see it: only a parsed object has
\* Item properties; a number, a string or a boolean has none
Get(e, k, default) == IF e.t = "object" /\ k \in DOMAIN e.f THEN e.f[k] ELSE default

\* Mutant: the defaults are spread over the stored record.
Backfill_defaultsWin(e, r) ==
    [createEmptyItem(r) EXCEPT
        !.profitPercent = IF Get(e, "profitPercent", 0) \in PROFIT_OPTIONS
                          THEN Get(e, "profitPercent", 0) ELSE 20]

\* { ...createEmptyItem(), ...item, profitPercent: ... } for one parsed element
Backfill(e, r) ==
    [ref |-> r,
     id |-> Get(e, "id", ""),
     name |-> Get(e, "name", Untitled),
     quantity |-> Get(e, "quantity", 0),
     pricePerItem |-> Get(e, "pricePerItem", 0),
     setupFee |-> Get(e, "setupFee", 0),
     shipping |-> Get(e, "shipping", 0),
     profitPercent |-> IF Get(e, "profitPercent", 0) \in PROFIT_OPTIONS
                       THEN Get(e, "profitPercent", 0) ELSE 20]

\* Mutant: without the Array.isArray test, a parsed value that is not an
\* array is kept as one Item.
loadSavedItems_noArrayCheck(raw, r0) ==
    IF raw.kind \in {"absent", "empty"} THEN <<>>
    ELSE IF raw.kind = "malformed" THEN <<>>
    ELSE IF raw.kind # "array" THEN <<createEmptyItem(r0)>>
    ELSE IF \E i \in 1..Len(raw.elems) : raw.elems[i].t = "null" THEN <<>>
    ELSE [i \in 1..Len(raw.elems) |-> Backfill(raw.elems[i], r0 + i - 1)]

\* loadSavedItems(): raw is the stored value, r0 the first free identity.
\* A null element makes item.profitPercent throw; the catch returns [].
loadSavedItems(raw, r0) ==
    IF raw.kind \in {"absent", "empty"} THEN <<>>
    ELSE IF raw.kind = "malformed" THEN <<>>
    ELSE IF raw.kind # "array" THEN <<>>
    ELSE IF \E i \in 1..Len(raw.elems) : raw.elems[i].t = "null" THEN <<>>
    ELSE [i \in 1..Len(raw.elems) |-> Backfill(raw.elems[i], r0 + i - 1)]

\* Mutant: the id is always a new one.
nextItemOf_alwaysFresh(item, fresh, r) == [item EXCEPT !.id = fresh, !.ref = r]

\* upsertItem's nextItem: { ...item, id: item.id || nanoid() }, a new object
nextItemOf(item, fresh, r) ==
    [item EXCEPT !.id = IF item.id # "" THEN item.id ELSE fresh, !.ref = r]

\* Mutant: the Item is appended whether or not its id exists.
upsertItem_alwaysAppends(items, item, fresh, r) ==
    Append(items, nextItemOf(item, fresh, r))

\* upsertItem's computation of `updated` from savedItemsRef.current
upsertItem(items, item, fresh, r) ==
    LET nextItem == nextItemOf(item, fresh, r)
        exists == \E i \in 1..Len(items) : items[i].id = nextItem.id
    IN IF exists
       THEN [i \in 1..Len(items) |->
                IF items[i].id = nextItem.id THEN nextItem ELSE items[i]]
       ELSE Append(items, nextItem)

(***************************************************************************)
(* Stored payloads a session may start from                                *)
(***************************************************************************)
RawElems ==
    { [t |-> "object",
       f |-> [id |-> "p1", name |-> <<"A">>, quantity |-> 200, pricePerItem |-> 500,
              setupFee |-> 0, shipping |-> 0, profitPercent |-> 25]],
      [t |-> "object",
       f |-> [id |-> "p1", name |-> <<>>, quantity |-> -100, profitPercent |-> 50]],
      [t |-> "object", f |-> [name |-> <<" ","U","N","T","I","T","L","E","D"," ">>]],
      [t |-> "object", f |-> [quantity |-> 100]] }

RECURSIVE SeqsUpTo(_, _)
SeqsUpTo(S, n) ==
    IF n = 0 THEN {<<>>}
    ELSE LET shorter == SeqsUpTo(S, n - 1)
         IN shorter \cup {Append(q, e) : q \in {x \in shorter : Len(x) = n - 1}, e \in S}

StoredPayloads ==
    {[kind |-> "absent"], [kind |-> "empty"], [kind |-> "malformed"], [kind |-> "object"]}
    \cup {[kind |-> "array", elems |-> q] : q \in SeqsUpTo(RawElems, MaxStored)}

(***************************************************************************)
(* User inputs                                                             *)
(***************************************************************************)
NameInputs == {<<>>, <<"A">>}
NumberInputs == {<<>>, <<"-","1">>}
ProfitInputs == {<<"0",".","2","5">>, <<"0",".","5">>}

(***************************************************************************)
(* The autosave variant                                                    *)
(***************************************************************************)
Init ==
    /\ storage \in StoredPayloads
    /\ current = createEmptyItem(1)
    /\ savedItems = loadSavedItems(storage, 2)
    /\ savedItemsRef = savedItems
    /\ debouncedCurrent = current
    /\ hasMounted = FALSE
    /\ debouncePending = FALSE
    /\ lastArgs = NoItem
    /\ timerPending = FALSE
    /\ timerItem = NoItem
    /\ nextRef = 2 + Len(savedItems)
    /\ nanoCount = 0
    /\ ops = 0
    /\ curOrigin = "init"
    /\ editRefs = {}
    /\ autosaved = <<>>
    /\ superseded = {}
    /\ abandoned = {}
    /\ deletedCur = {}
    /\ newItemDraft = NoItem
    /\ dialogOpen = FALSE
    /\ input = NoItem
    /\ output = <<>>

\* Mutant: the armed timer keeps the argument of the first call.
updateDebouncedValue_keepFirst(pending, args, value) ==
    IF pending THEN args ELSE value

\* lodash debounce (trailing edge) behind useDebounceValue: a call while the
\* timer is armed restarts it and replaces the pending argument.
updateDebouncedValue(pending, args, value) == value

\* Mutant: the effect skips every run after the first one.
effectArms_skipsLater(mounted, deb) == ~mounted /\ ~isEmpty(deb)

\* Mutant: an effect with neither the mount guard nor the blank test.
effectArms_unguarded(mounted, deb) == TRUE

\* Mutant: the blank test looks at the name and the numbers, not at the id.
effectArms_blankByFields(mounted, deb) == mounted /\ ~isEmpty([deb EXCEPT !.id = ""])

\* Whether a run of the autosave effect reaches setTimeout
effectArms(mounted, deb) == mounted /\ ~isEmpty(deb)

SavedIds == {savedItems[i].id : i \in 1..Len(savedItems)}

\* the render after setCurrent(next): useDebounceValue sees a new object
Rerender(next) ==
    /\ current' = next
    /\ debouncePending' = TRUE
    /\ lastArgs' = updateDebouncedValue(debouncePending, lastArgs, next)

\* Mutant: the edit keeps the Draft's id, empty or not.
Edit_neverAnchors(next) ==
    /\ hasMounted
    /\ ops < MaxOps
    /\ Rerender([next EXCEPT !.ref = nextRef])
    /\ nextRef' = nextRef + 1
    /\ ops' = ops + 1
    /\ curOrigin' = "edit"
    /\ editRefs' = editRefs \cup {nextRef}
    /\ superseded' = IF debouncePending /\ curOrigin = "edit"
                     THEN superseded \cup {current.ref} ELSE superseded
    /\ UNCHANGED <<storage, savedItems, savedItemsRef, debouncedCurrent, hasMounted,
                   timerPending, timerItem, autosaved, abandoned, deletedCur, nanoCount>>
    /\ UNCHANGED <<input, output, newItemDraft, dialogOpen>>

\* Mutant: every edit gives the Draft a new id.
Edit_alwaysFresh(next) ==
    /\ hasMounted
    /\ ops < MaxOps
    /\ Rerender([next EXCEPT !.ref = nextRef, !.id = nanoid(nanoCount)])
    /\ nextRef' = nextRef + 1
    /\ nanoCount' = nanoCount + 1
    /\ ops' = ops + 1
    /\ curOrigin' = "edit"
    /\ editRefs' = editRefs \cup {nextRef}
    /\ superseded' = IF debouncePending /\ curOrigin = "edit"
                     THEN superseded \cup {current.ref} ELSE superseded
    /\ UNCHANGED <<storage, savedItems, savedItemsRef, debouncedCurrent, hasMounted,
                   timerPending, timerItem, autosaved, abandoned, deletedCur>>
    /\ UNCHANGED <<input, output, newItemDraft, dialogOpen>>

\* setCurrent((prev) => ({ ...prev, id: prev.id || nanoid(), ... }))
Edit(next) ==
    /\ hasMounted
    /\ ops < MaxOps
    /\ Rerender([next EXCEPT !.ref = nextRef,
                             !.id = IF current.id # "" THEN current.id
                                    ELSE nanoid(nanoCount)])
    /\ nextRef' = nextRef + 1
    /\ nanoCount' = IF current.id # "" THEN nanoCount ELSE nanoCount + 1
    /\ ops' = ops + 1
    /\ curOrigin' = "edit"
    /\ editRefs' = editRefs \cup {nextRef}
    /\ superseded' = IF debouncePending /\ curOrigin = "edit"
                     THEN superseded \cup {current.ref} ELSE superseded
    /\ UNCHANGED <<storage, savedItems, savedItemsRef, debouncedCurrent, hasMounted,
                   timerPending, timerItem, autosaved, abandoned, deletedCur>>
    /\ UNCHANGED <<input, output, newItemDraft, dialogOpen>>

handleNumberChange(field, value) ==
    Edit([current EXCEPT ![field] = NumberOrZero(value)])

handleNameChange(value) ==
    Edit([current EXCEPT !.name = IF value # <<>> THEN value ELSE Untitled])

\* Mutant: the parsed selection is stored without the PROFIT_OPTIONS test.
handleProfitChange_unchecked(value) ==
    Edit([current EXCEPT !.profitPercent = Number(value).val])

handleProfitChange(value) ==
    LET parsed == Number(value) IN
    Edit([current EXCEPT !.profitPercent =
            IF ~parsed.nan /\ parsed.val \in PROFIT_OPTIONS THEN parsed.val ELSE 20])

\* Mutant: the Draft becomes a copy of the found Item under a new id.
handleLoad_freshId(id) ==
    /\ hasMounted
    /\ ops < MaxOps
    /\ \E i \in 1..Len(savedItems) :
        /\ savedItems[i].id = id
        /\ \A j \in 1..(i - 1) : savedItems[j].id # id
        /\ Rerender([savedItems[i] EXCEPT !.id = nanoid(nanoCount), !.ref = nextRef])
    /\ nextRef' = nextRef + 1
    /\ nanoCount' = nanoCount + 1
    /\ ops' = ops + 1
    /\ curOrigin' = "load"
    /\ abandoned' = IF debouncePending /\ curOrigin = "edit"
                    THEN abandoned \cup {current.ref} ELSE abandoned
    /\ UNCHANGED <<storage, savedItems, savedItemsRef, debouncedCurrent, hasMounted,
                   timerPending, timerItem, editRefs, autosaved, superseded,
                   deletedCur>>
    /\ UNCHANGED <<input, output, newItemDraft, dialogOpen>>

\* found = savedItemsRef.current.find(...); if (found) setCurrent(found).
\* Setting the object the Draft already is changes nothing and is not a step.
handleLoad(id) ==
    /\ hasMounted
    /\ ops < MaxOps
    /\ IF \E i \in 1..Len(savedItems) : savedItems[i].id = id
       THEN /\ \E i \in 1..Len(savedItems) :
                /\ savedItems[i].id = id
                /\ \A j \in 1..(i - 1) : savedItems[j].id # id
                /\ savedItems[i].ref # current.ref
                /\ Rerender(savedItems[i])
            /\ curOrigin' = "load"
            /\ abandoned' = IF debouncePending /\ curOrigin = "edit"
                            THEN abandoned \cup {current.ref} ELSE abandoned
       ELSE UNCHANGED <<current, debouncePending, lastArgs, curOrigin, abandoned>>
    /\ ops' = ops + 1
    /\ UNCHANGED <<storage, savedItems, savedItemsRef, debouncedCurrent, hasMounted,
                   timerPending, timerItem, nextRef, nanoCount, editRefs, autosaved,
                   superseded, deletedCur>>
    /\ UNCHANGED <<input, output, newItemDraft, dialogOpen>>

\* Mutant: the payload is not written by the call.
persistItems_withoutStore(items) ==
    /\ savedItems' = items
    /\ savedItemsRef' = items
    /\ storage' = storage

persistItems(items) ==
    /\ savedItems' = items
    /\ savedItemsRef' = items
    /\ storage' = stringify(items)

\* Mutant: the Draft is left as it is when its id is deleted.
handleDelete_keepsDraft(id) ==
    /\ hasMounted
    /\ ops < MaxOps
    /\ savedItems' = SelectSeq(savedItems, LAMBDA item : item.id # id)
    /\ savedItemsRef' = savedItems'
    /\ storage' = stringify(savedItems')
    /\ ops' = ops + 1
    /\ UNCHANGED <<current, debouncePending, lastArgs, nextRef, curOrigin, deletedCur,
                   debouncedCurrent, hasMounted, timerPending, timerItem, nanoCount,
                   editRefs, autosaved, superseded, abandoned>>
    /\ UNCHANGED <<input, output, newItemDraft, dialogOpen>>

\* Mutant: the Draft is reset whatever id is deleted.
handleDelete_alwaysResets(id) ==
    /\ hasMounted
    /\ ops < MaxOps
    /\ persistItems(SelectSeq(savedItems, LAMBDA item : item.id # id))
    /\ ops' = ops + 1
    /\ Rerender(createEmptyItem(nextRef))
    /\ nextRef' = nextRef + 1
    /\ curOrigin' = "delete"
    /\ deletedCur' = deletedCur \cup {id}
    /\ UNCHANGED <<debouncedCurrent, hasMounted, timerPending, timerItem, nanoCount,
                   editRefs, autosaved, superseded, abandoned>>
    /\ UNCHANGED <<input, output, newItemDraft, dialogOpen>>

handleDelete(id) ==
    /\ hasMounted
    /\ ops < MaxOps
    /\ persistItems(SelectSeq(savedItems, LAMBDA item : item.id # id))
    /\ ops' = ops + 1
    /\ IF current.id = id
       THEN /\ Rerender(createEmptyItem(nextRef))
            /\ nextRef' = nextRef + 1
            /\ curOrigin' = "delete"
            /\ deletedCur' = deletedCur \cup {id}
       ELSE UNCHANGED <<current, debouncePending, lastArgs, nextRef, curOrigin,
                        deletedCur>>
    /\ UNCHANGED <<debouncedCurrent, hasMounted, timerPending, timerItem, nanoCount,
                   editRefs, autosaved, superseded, abandoned>>
    /\ UNCHANGED <<input, output, newItemDraft, dialogOpen>>

handleNew ==
    /\ hasMounted
    /\ ops < MaxOps
    /\ Rerender(createEmptyItem(nextRef))
    /\ nextRef' = nextRef + 1
    /\ ops' = ops + 1
    /\ curOrigin' = "new"
    /\ abandoned' = IF debouncePending /\ curOrigin = "edit"
                    THEN abandoned \cup {current.ref} ELSE abandoned
    /\ UNCHANGED <<storage, savedItems, savedItemsRef, debouncedCurrent, hasMounted,
                   timerPending, timerItem, nanoCount, editRefs, autosaved, superseded,
                   deletedCur>>
    /\ UNCHANGED <<input, output, newItemDraft, dialogOpen>>

\* The effect's first run, right after the first render.
MountEffect ==
    /\ ~hasMounted
    /\ hasMounted' = TRUE
    /\ timerPending' = effectArms(hasMounted, debouncedCurrent)
    /\ timerItem' = IF timerPending' THEN debouncedCurrent ELSE NoItem
    /\ UNCHANGED <<storage, current, savedItems, savedItemsRef, debouncedCurrent,
                   debouncePending, lastArgs, nextRef, nanoCount, ops, curOrigin,
                   editRefs, autosaved, superseded, abandoned, deletedCur>>
    /\ UNCHANGED <<input, output, newItemDraft, dialogOpen>>

\* The debounce timer elapses: setDebouncedValue(lastArgs).  React skips the
\* render when the value is the same object; otherwise the effect's cleanup
\* clears the previous timeout and the effect runs again.
DebounceFire ==
    /\ debouncePending
    /\ debouncePending' = FALSE
    /\ lastArgs' = NoItem
    /\ IF lastArgs.ref = debouncedCurrent.ref
       THEN UNCHANGED <<debouncedCurrent, timerPending, timerItem>>
       ELSE /\ debouncedCurrent' = lastArgs
            /\ timerPending' = effectArms(hasMounted, lastArgs)
            /\ timerItem' = IF timerPending' THEN lastArgs ELSE NoItem
    /\ UNCHANGED <<storage, current, savedItems, savedItemsRef, hasMounted, nextRef,
                   nanoCount, ops, curOrigin, editRefs, autosaved, superseded,
                   abandoned, deletedCur>>
    /\ UNCHANGED <<input, output, newItemDraft, dialogOpen>>

\* The setTimeout(..., 0) callback: upsertItem(debouncedCurrent)
DeferredWrite ==
    /\ timerPending
    /\ persistItems(upsertItem(savedItemsRef, timerItem, nanoid(nanoCount), nextRef))
    /\ autosaved' = Append(autosaved,
            [src |-> timerItem.ref, arg |-> Fields(timerItem),
             item |-> Fields(nextItemOf(timerItem, nanoid(nanoCount), nextRef))])
    /\ nanoCount' = IF timerItem.id # "" THEN nanoCount ELSE nanoCount + 1
    /\ nextRef' = nextRef + 1
    /\ timerPending' = FALSE
    /\ timerItem' = NoItem
    /\ UNCHANGED <<current, debouncedCurrent, hasMounted, debouncePending, lastArgs,
                   ops, curOrigin, editRefs, superseded, abandoned, deletedCur>>
    /\ UNCHANGED <<input, output, newItemDraft, dialogOpen>>

Next ==
    \/ MountEffect
    \/ \E field \in NumericField, value \in NumberInputs : handleNumberChange(field, value)
    \/ \E value \in NameInputs : handleNameChange(value)
    \/ \E value \in ProfitInputs : handleProfitChange(value)
    \/ \E id \in SavedIds : handleLoad(id)
    \/ \E id \in SavedIds : handleDelete(id)
    \/ handleNew
    \/ DebounceFire
    \/ DeferredWrite

Spec == Init /\ [][Next]_vars

\* Sessions that start from no stored payload or from one stored Item.
LiveInit ==
    /\ Init
    /\ storage.kind \in {"absent", "array"}
    /\ storage.kind = "array" => Len(storage.elems) = 1

\* the same sessions without the fairness conditions
OneItemSpec == LiveInit /\ [][Next]_vars

\* ids handleLoad is called with: stored ones and one that is never stored
LoadIds == {"", "p1", "p9"}

\* handleLoad called with an id no saved Item has
LoadMissing == \E id \in LoadIds \ SavedIds : handleLoad(id)

DraftSpec == LiveInit /\ [][Next \/ LoadMissing]_vars

\* Sessions that start from two stored Items: a record without id, then p1.
TwoItemInit ==
    /\ Init
    /\ storage.kind = "array"
    /\ Len(storage.elems) = 2
    /\ storage.elems[1] = [t |-> "object", f |-> [quantity |-> 100]]
    /\ Get(storage.elems[2], "id", "") = "p1"

TwoItemSpec ==
    /\ TwoItemInit
    /\ [][Next]_vars
    /\ WF_vars(MountEffect)
    /\ WF_vars(DebounceFire)
    /\ WF_vars(DeferredWrite)

LiveSpec ==
    /\ LiveInit
    /\ [][Next]_vars
    /\ WF_vars(MountEffect)
    /\ WF_vars(DebounceFire)
    /\ WF_vars(DeferredWrite)

(***************************************************************************)
(* Properties of the autosave variant                                      *)
(***************************************************************************)
StoredIds ==
    IF storage.kind = "array"
    THEN {Get(storage.elems[i], "id", "") : i \in 1..Len(storage.elems)}
    ELSE {}

Quiescent == hasMounted /\ ~debouncePending /\ ~timerPending

WritesFrom(r) == {i \in 1..Len(autosaved) : autosaved[i].src = r}

\* The Draft's fields are in the Collection and in the stored payload.
Synced ==
    /\ \E k \in 1..Len(savedItems) : Fields(savedItems[k]) = Fields(current)
    /\ storage = stringify(savedItems)

\* C1: edits made while the debounce timer is armed are coalesced: an edited
\* Draft replaced by a later edit before the timer elapsed is never passed to
\* upsertItem, no edited Draft is written twice, and once both timers have
\* run the last edit's value has been written exactly once and is the value
\* held by the Collection and the stored payload.
C1_DebounceCoalescing ==
    /\ \A r \in superseded : WritesFrom(r) = {}
    /\ \A r \in editRefs : Cardinality(WritesFrom(r)) <= 1
    /\ (Quiescent /\ current.ref \in editRefs) =>
          /\ Cardinality(WritesFrom(current.ref)) = 1
          /\ \A i \in WritesFrom(current.ref) : autosaved[i].item = Fields(current)
          /\ Synced

C1_Witness ==
    /\ Quiescent
    /\ current.ref \in editRefs
    /\ superseded # {}
    /\ WritesFrom(current.ref) # {}

\* C2 (as claimed): once an id has been deleted while it was the Draft's id,
\* no Item with that id is in the Collection or the stored payload again.
C2_DeletedStaysDeleted ==
    \A id \in deletedCur : id \notin SavedIds /\ id \notin StoredIds

\* C3: an edited Draft that New item or a load replaces while the debounce
\* timer is still armed is dropped: it is never the pending argument, never
\* the debounced value, never captured by the deferred callback and never
\* passed to upsertItem.
C3_AbandonedNeverWritten ==
    \A r \in abandoned :
        /\ WritesFrom(r) = {}
        /\ lastArgs.ref # r
        /\ debouncedCurrent.ref # r
        /\ timerItem.ref # r

C3_Witness ==
    /\ abandoned # {}
    /\ Quiescent
    /\ autosaved # <<>>

\* C4 (as claimed): no two Items of the Collection have the same id.
C4_UniqueIds ==
    \A i, j \in 1..Len(savedItems) : i # j => savedItems[i].id # savedItems[j].id

\* C7: when the debounce timer elapses on a blank Draft, the Collection, its
\* mirror and the stored payload are unchanged and no deferred write is left
\* armed; and no call of upsertItem by the autosave receives a blank Item.
C7_BlankDraftGuard ==
    /\ [][(DebounceFire /\ isEmpty(lastArgs)) =>
              /\ UNCHANGED <<savedItems, savedItemsRef, storage>>
              /\ ~timerPending']_vars
    /\ [](\A i \in 1..Len(autosaved) :
              ~(/\ autosaved[i].arg.id = ""
                /\ toLowerCase(trim(autosaved[i].arg.name)) = untitled
                /\ autosaved[i].arg.quantity = 0
                /\ autosaved[i].arg.pricePerItem = 0
                /\ autosaved[i].arg.setupFee = 0
                /\ autosaved[i].arg.shipping = 0))

\* the timer has elapsed on a blank Draft whose name is not literally "Untitled"
C7_Witness ==
    /\ Quiescent
    /\ debouncedCurrent.ref = current.ref
    /\ current.ref # 1
    /\ current.id = ""
    /\ current.name # Untitled
    /\ toLowerCase(trim(current.name)) = untitled
    /\ current.quantity = 0 /\ current.pricePerItem = 0
    /\ current.setupFee = 0 /\ current.shipping = 0

\* C8: with the timers fair, whenever the Draft is an edited one, eventually
\* the Draft has been replaced (load, New item, delete of its id) or it is in
\* the Collection and in the stored payload, field for field.  Edits are
\* finitely many in a session, so the last edited Draft is the one written.
C8_AutosaveLiveness ==
    (current.ref \in editRefs) ~> (current.ref \notin editRefs \/ Synced)

C8_Witness ==
    /\ current.ref \in editRefs
    /\ WritesFrom(current.ref) # {}
    /\ Synced

\* C9: as long as the Draft is the object created at mount, neither timer is
\* armed and the autosave has written nothing.
C9_NoWriteAtMount ==
    current.ref = 1 => (autosaved = <<>> /\ ~timerPending /\ ~debouncePending)

C9_Witness == hasMounted /\ current.ref = 1 /\ ops > 0

\* positions of items whose id differs from id
Kept(items, id) == {i \in 1..Len(items) : items[i].id # id}

\* C10: deleting the Draft's id leaves a fresh empty unanchored Draft and a
\* Collection, also written to the store, without that id and with every
\* other Item in its former relative order.
C10_DeleteCurrent ==
    [][\A id \in SavedIds :
          (handleDelete(id) /\ current.id = id) =>
              /\ Fields(current') = Fields(createEmptyItem(0))
              /\ \A i \in 1..Len(savedItems') : savedItems'[i].id # id
              /\ Len(savedItems') = Cardinality(Kept(savedItems, id))
              /\ \A i \in Kept(savedItems, id) :
                    savedItems'[Cardinality({k \in Kept(savedItems, id) : k <= i})]
                        = savedItems[i]
              /\ storage' = stringify(savedItems')
              /\ savedItemsRef' = savedItems']_vars

C10_Witness ==
    /\ curOrigin = "delete"
    /\ deletedCur \cap {"p1"} # {}
    /\ Len(savedItems) > 0
    /\ storage = stringify(savedItems)

\* ids the session has seen: stored, in the Collection, or written by the autosave
KnownIds ==
    SavedIds \cup StoredIds \cup {autosaved[i].item.id : i \in 1..Len(autosaved)}

\* The step sets the Draft to a new object holding `changed`, under the
\* Draft's id when it has one and under a new id when it has none.
AnchoredAs(changed) ==
    /\ current'.ref # current.ref
    /\ Fields(current') = [Fields(changed) EXCEPT !.id = current'.id]
    /\ current.id # "" => current'.id = current.id
    /\ current.id = "" => (current'.id # "" /\ current'.id \notin KnownIds)

\* C11 (sessions that start from no stored payload or from one stored Item):
\* an edit of the name, of a numeric field or of the profit rate gives,
\* in that one update, a Draft with the field changed and every other field
\* kept, whose id is the Draft's id when it had one and otherwise a non-empty
\* new id that no Item of the Collection or of the stored payload has.
C11_AnchorOnFirstEdit ==
    [][/\ \A field \in NumericField, value \in NumberInputs :
            \/ AnchoredAs([current EXCEPT ![field] = IF value = <<>> THEN 0 ELSE -100])
            \/ ~handleNumberChange(field, value)
       /\ \A value \in NameInputs :
            \/ AnchoredAs([current EXCEPT !.name = IF value = <<>> THEN Untitled ELSE value])
            \/ ~handleNameChange(value)
       /\ \A value \in ProfitInputs :
            \/ AnchoredAs([current EXCEPT !.profitPercent =
                                IF value = <<"0", ".", "2", "5">> THEN 25 ELSE 20])
            \/ ~handleProfitChange(value)]_vars

\* an unanchored Draft was anchored by a numeric edit and then renamed, next
\* to a Collection that is not empty
C11_Witness ==
    /\ curOrigin = "edit"
    /\ current.id = "n1"
    /\ current.quantity = -100
    /\ current.name = <<"A">>
    /\ savedItems # <<>>

ValidProfit(items) == \A i \in 1..Len(items) : items[i].profitPercent \in PROFIT_OPTIONS

\* C13: the Collection built from the stored payload holds each record's
\* profitPercent when it is one of 0.2, 0.25, 0.3 and 0.2 otherwise; in every
\* state the Draft, its debounced copy and every Item of the Collection and
\* of its mirror have profitPercent in that set; every payload the program
\* writes holds only such values; a selection outside the set makes the
\* Draft's profitPercent 0.2.
C13_ProfitRateEnumerated ==
    /\ \A i \in 1..Len(savedItems) :
          savedItems[i].profitPercent =
              IF Get(storage.elems[i], "profitPercent", 0) \in PROFIT_OPTIONS
              THEN Get(storage.elems[i], "profitPercent", 0) ELSE 20
    /\ [](/\ ValidProfit(savedItems)
          /\ ValidProfit(savedItemsRef)
          /\ current.profitPercent \in PROFIT_OPTIONS
          /\ debouncedCurrent.profitPercent \in PROFIT_OPTIONS)
    /\ [][storage' # storage =>
              \A i \in 1..Len(storage'.elems) :
                  storage'.elems[i].f.profitPercent \in PROFIT_OPTIONS]_vars
    /\ [][handleProfitChange(<<"0", ".", "5">>) => current'.profitPercent = 20]_vars

\* the Item stored with rate 0.25 was loaded, its rate was set to a value
\* outside the set, and the autosave has written it
C13_Witness ==
    /\ current.id = "p1"
    /\ current.name = <<"A">>
    /\ current.profitPercent = 20
    /\ curOrigin = "edit"
    /\ autosaved # <<>>
    /\ Synced

\* C14 (as claimed): no Item of the Collection has the empty string as its
\* name, and no payload the program writes holds an Item with an empty name.
C14_NameNeverEmpty ==
    /\ \A i \in 1..Len(savedItems) : savedItems[i].name # <<>>
    /\ storage = stringify(savedItems) =>
          \A i \in 1..Len(storage.elems) : storage.elems[i].f.name # <<>>

\* The payload is the array of the fields of the Items of the Collection,
\* in order, and the mirror is the Collection.
InStep ==
    /\ savedItemsRef = savedItems
    /\ storage.kind = "array"
    /\ Len(storage.elems) = Len(savedItems)
    /\ \A i \in 1..Len(savedItems) :
          storage.elems[i] = [t |-> "object", f |-> Fields(savedItems[i])]

\* C20: each autosave write and each delete leaves, in the same step, the
\* payload, the Collection and its mirror holding the same sequence of
\* Items; no other step changes any of the three, so from the first write
\* on they never differ; the mirror equals the Collection in every state.
C20_SynchronousWrite ==
    /\ [](savedItemsRef = savedItems)
    /\ [][IF DeferredWrite \/ (ops' # ops /\ \E id \in SavedIds : handleDelete(id))
          THEN InStep'
          ELSE UNCHANGED <<storage, savedItems, savedItemsRef>>]_vars
    /\ [][InStep => InStep']_vars

\* after an autosave write and a delete
C20_Witness ==
    /\ autosaved # <<>>
    /\ deletedCur # {}
    /\ savedItems # <<>>
    /\ InStep

\* C21 (as claimed): the Item each autosave passes to upsertItem is the Draft
\* as it is when the deferred callback runs.
C21_WritesCurrentDraft ==
    [][autosaved' # autosaved =>
          /\ autosaved'[Len(autosaved')].src = current.ref
          /\ autosaved'[Len(autosaved')].arg = Fields(current)]_vars

\* the first Item of the Collection with the given id
FirstWithId(id) ==
    savedItems[CHOOSE i \in 1..Len(savedItems) :
                  /\ savedItems[i].id = id
                  /\ \A j \in 1..(i - 1) : savedItems[j].id # id]

\* C22: handleLoad(id) makes the Draft exactly the saved Item with that id
\* (the same id and fields, no id generated) and changes neither the
\* Collection nor the stored payload; when no saved Item has the id, the
\* Draft, the Collection and the payload are all unchanged.
C22_LoadDraft ==
    [][\A id \in LoadIds :
          handleLoad(id) =>
              /\ UNCHANGED <<savedItems, savedItemsRef, storage, nanoCount>>
              /\ IF id \in SavedIds
                 THEN current' = FirstWithId(id)
                 ELSE current' = current]_vars

\* A session of one stored Item in which a load of a missing id and a load of
\* the stored id have both taken place.
C22_Witness ==
    /\ ops = 2
    /\ curOrigin = "load"
    /\ Len(savedItems) = 1
    /\ current = savedItems[1]
    /\ nextRef = 3
    /\ deletedCur = {}

\* C24 (as claimed): an autosave whose Item has an empty id stores it under
\* a new id that is not empty and is not an id of the Collection, every Item
\* an upsert writes has a non-empty id, and a Draft whose id is empty is
\* never itself an element of the Collection.
C24_NeverUnanchored ==
    /\ [][autosaved' # autosaved =>
             LET w == autosaved'[Len(autosaved')]
             IN /\ w.item.id # ""
                /\ w.arg.id = "" => w.item.id \notin SavedIds]_vars
    /\ [](current.id = "" =>
             \A k \in 1..Len(savedItems) : savedItems[k].ref # current.ref)

\* the Item with each negative numeric field replaced by 0
Clamped(item) ==
    [f \in DOMAIN item |->
        IF f \in NumericField /\ item[f] < 0 THEN 0 ELSE item[f]]

\* C25: an edit that enters -1 in a numeric field makes that field of the
\* Draft -1; an autosave stores the numeric fields of the Item it was given
\* as they are, in the Collection and in the payload; and the totals of the
\* Draft and of every Item of the Collection are those of the same Item with
\* its negative fields taken as 0.
C25_ClampOnlyAtCalculation ==
    /\ [][\A field \in NumericField :
             handleNumberChange(field, <<"-", "1">>) => current'[field] = 0 - 100]_vars
    /\ [][autosaved' # autosaved =>
             LET w == autosaved'[Len(autosaved')]
             IN /\ \A f \in NumericField : w.item[f] = w.arg[f]
                /\ \E k \in 1..Len(savedItems') : Fields(savedItems'[k]) = w.item
                /\ storage' = stringify(savedItems')]_vars
    /\ [](/\ calculateTotals(current) = calculateTotals(Clamped(current))
          /\ \A k \in 1..Len(savedItems) :
                 calculateTotals(savedItems[k]) = calculateTotals(Clamped(savedItems[k])))

\* the Draft loaded from a stored Item of price 5 was given quantity -1 and
\* autosaved: the Collection and the payload hold -1 and the total is 0
C25_Witness ==
    /\ curOrigin = "edit"
    /\ current.id = "p1"
    /\ current.quantity = 0 - 100
    /\ current.pricePerItem = 500
    /\ autosaved # <<>>
    /\ Synced
    /\ calculateTotals(current).total = 0

\* C26: an edit of a Draft that has an id keeps the id; an autosave of an Item
\* whose id is in the Collection keeps the Collection's length and order and
\* replaces the Items of that id, leaving the others as they are; and while
\* the Draft is an edited one, an autosave of its id adds an Item to the
\* Collection only if no earlier autosave wrote that id.
C26_StableIdentity ==
    /\ [][(editRefs' # editRefs /\ current.id # "") => current'.id = current.id]_vars
    /\ [][autosaved' # autosaved =>
             LET w == autosaved'[Len(autosaved')]
             IN /\ w.item.id \in SavedIds =>
                      /\ Len(savedItems') = Len(savedItems)
                      /\ \A k \in 1..Len(savedItems) :
                             Fields(savedItems'[k]) =
                                 IF savedItems[k].id = w.item.id THEN w.item
                                 ELSE Fields(savedItems[k])
                /\ (/\ curOrigin = "edit"
                    /\ w.arg.id = current.id
                    /\ Len(savedItems') > Len(savedItems)) =>
                       \A n \in 1..Len(autosaved) : autosaved[n].item.id # w.item.id]_vars

\* a new Draft was edited and autosaved, edited again and autosaved again:
\* both writes carry the id n1 and the Collection holds one Item of that id
C26_Witness ==
    /\ Len(autosaved) = 2
    /\ autosaved[1].item.id = "n1"
    /\ autosaved[2].item.id = "n1"
    /\ autosaved[1].item # autosaved[2].item
    /\ current.id = "n1"
    /\ Cardinality({k \in 1..Len(savedItems) : savedItems[k].id = "n1"}) = 1
    /\ Fields(savedItems[Len(savedItems)]) = autosaved[2].item

FieldsOf(items) == [i \in 1..Len(items) |-> Fields(items[i])]

\* C29: handleDelete(id) with an id that is not the Draft's leaves the Draft,
\* the debounce timer with its pending value, the debounced copy and the
\* deferred callback as they are; the Collection, also written to the store,
\* is the former one without the Items of that id, the others in their
\* former order; and with the timers fair, an edited Draft that is pending is
\* eventually replaced by the user or held by the Collection and the payload.
C29_DeleteOther ==
    /\ [][\A id \in SavedIds :
             (handleDelete(id) /\ current.id # id) =>
                 /\ UNCHANGED <<current, debouncePending, lastArgs, debouncedCurrent,
                                timerPending, timerItem>>
                 /\ Len(savedItems') = Cardinality(Kept(savedItems, id))
                 /\ \A i \in Kept(savedItems, id) :
                        savedItems'[Cardinality({k \in Kept(savedItems, id) : k <= i})]
                            = savedItems[i]
                 /\ savedItemsRef' = savedItems'
                 /\ storage' = stringify(savedItems')]_vars
    /\ (current.ref \in editRefs /\ (debouncePending \/ timerPending)) ~>
           (current.ref \notin editRefs \/ Synced)

\* The new Draft was edited (id n1); the stored record without id was then
\* deleted, which left the Draft in place (had the deletion come first, it
\* would have been the deletion of the Draft's own empty id); the autosave
\* then wrote the Draft behind p1, the stored Item that was second.
C29_Witness ==
    /\ ops = 2
    /\ curOrigin = "edit"
    /\ current.ref = 4
    /\ current.id = "n1"
    /\ deletedCur = {}
    /\ autosaved # <<>>
    /\ Len(savedItems) = 2
    /\ savedItems[1].ref = 3
    /\ savedItems[1].id = "p1"
    /\ Fields(savedItems[2]) = Fields(current)
    /\ storage = stringify(savedItems)

\* name "Untitled", every numeric field 0, profit rate 0.2, whatever the id
DefaultValued(item) == Fields([item EXCEPT !.id = ""]) = Fields(createEmptyItem(0))

\* C28: an edit that leaves every field of a Draft without id at its default
\* gives the Draft an id, so that an edited Draft is never blank for the
\* autosave effect; with the timers fair, such a Draft is eventually
\* replaced by the user or held by the Collection and the payload; and the
\* autosave of such an Item under an id the Collection does not hold appends
\* it, name "Untitled" and numbers 0, as the last Item.
C28_DefaultEditIsSaved ==
    /\ [][(editRefs' # editRefs /\ current.id = "" /\ DefaultValued(current')) =>
             (current'.id # "" /\ ~isEmpty(current'))]_vars
    /\ [](/\ current.ref \in editRefs => ~isEmpty(current)
          /\ debouncedCurrent.ref \in editRefs => ~isEmpty(debouncedCurrent))
    /\ [][(/\ autosaved' # autosaved
           /\ DefaultValued(autosaved'[Len(autosaved')].arg)
           /\ autosaved'[Len(autosaved')].arg.id \notin SavedIds \cup {""}) =>
              FieldsOf(savedItems') =
                  Append(FieldsOf(savedItems), autosaved'[Len(autosaved')].arg)]_vars
    /\ (current.ref \in editRefs /\ DefaultValued(current)) ~>
           (current.ref \notin editRefs \/ ~DefaultValued(current) \/ Synced)

\* a new Draft whose quantity was edited to 0 was autosaved: the last Item of
\* the Collection is "Untitled" with zeros under the Draft's new id
C28_Witness ==
    /\ current.ref \in editRefs
    /\ DefaultValued(current)
    /\ current.id = "n1"
    /\ WritesFrom(current.ref) # {}
    /\ savedItems # <<>>
    /\ Fields(savedItems[Len(savedItems)]) = Fields(current)
    /\ storage = stringify(savedItems)

\* C27 (as claimed): while the Draft is a loaded Item that was not edited,
\* the autosave of that Item leaves the Collection as it was: the same
\* Items, as many, in the same order.
C27_LoadThenIdle ==
    [][(/\ autosaved' # autosaved
        /\ curOrigin = "load"
        /\ autosaved'[Len(autosaved')].src = current.ref) =>
           FieldsOf(savedItems') = FieldsOf(savedItems)]_vars

(***************************************************************************)
(* upsertItem as a function: any Collection of at most MaxStored Items     *)
(* (duplicate and empty ids included), any Item, called MaxCalls times     *)
(* with the same Item or with the Item the previous call returned.         *)
(***************************************************************************)
UpsertPool ==
    { [createEmptyItem(0) EXCEPT !.id = "p1", !.name = <<"A">>],
      [createEmptyItem(0) EXCEPT !.id = "p1", !.name = <<"B">>, !.quantity = 200],
      [createEmptyItem(0) EXCEPT !.id = "p2", !.name = <<"A">>],
      [createEmptyItem(0) EXCEPT !.name = <<"A">>] }

UpsertInit ==
    /\ \E q \in SeqsUpTo(UpsertPool, MaxStored) :
          savedItems = [i \in 1..Len(q) |-> [q[i] EXCEPT !.ref = i]]
    /\ savedItemsRef = savedItems
    /\ storage = stringify(savedItems)
    /\ \E item \in UpsertPool : input = [item EXCEPT !.ref = Len(savedItems) + 1]
    /\ output = <<>>
    /\ nextRef = Len(savedItems) + 2
    /\ nanoCount = 0
    /\ current = createEmptyItem(0)
    /\ debouncedCurrent = current
    /\ hasMounted = TRUE
    /\ debouncePending = FALSE
    /\ lastArgs = NoItem
    /\ timerPending = FALSE
    /\ timerItem = NoItem
    /\ ops = 0
    /\ curOrigin = "init"
    /\ editRefs = {}
    /\ autosaved = <<>>
    /\ superseded = {}
    /\ abandoned = {}
    /\ deletedCur = {}
    /\ newItemDraft = NoItem
    /\ dialogOpen = FALSE

\* One call upsertItem(item): nextItem is returned, `updated` is persisted.
UpsertCall(item) ==
    /\ Len(output) < MaxCalls
    /\ persistItems(upsertItem(savedItemsRef, item, nanoid(nanoCount), nextRef))
    /\ nanoCount' = IF item.id # "" THEN nanoCount ELSE nanoCount + 1
    /\ nextRef' = nextRef + 1
    /\ output' = Append(output,
            [arg |-> Fields(item),
             before |-> FieldsOf(savedItemsRef),
             after |-> FieldsOf(savedItemsRef'),
             returned |-> nextItemOf(item, nanoid(nanoCount), nextRef)])
    /\ UNCHANGED <<current, debouncedCurrent, hasMounted, debouncePending, lastArgs,
                   timerPending, timerItem, ops, curOrigin, editRefs, autosaved,
                   superseded, abandoned, deletedCur, input, newItemDraft, dialogOpen>>

UpsertSame == UpsertCall(input)

UpsertReturned == output # <<>> /\ UpsertCall(output[Len(output)].returned)

UpsertNext == UpsertSame \/ UpsertReturned

UpsertSpec == UpsertInit /\ [][UpsertNext]_vars

IdsOf(items) == {items[i].id : i \in 1..Len(items)}

\* C5 (as claimed): the Item passed is put at the position of its id, all
\* other positions unchanged, or appended when its id is not in C.
C5_ReplaceOrAppendAsPassed ==
    \A n \in 1..Len(output) :
        LET C == output[n].before
            R == output[n].after
            item == output[n].arg
        IN IF item.id \in IdsOf(C)
           THEN /\ Len(R) = Len(C)
                /\ \A k \in 1..Len(C) :
                      C[k].id = item.id =>
                          /\ R[k] = item
                          /\ \A j \in 1..Len(C) : j # k => R[j] = C[j]
           ELSE R = Append(C, item)

\* C5 (amended): with item' the Item passed, its id replaced by a new id
\* (non-empty, not in C) when it is empty: if item'.id is in C the result has
\* the length of C, holds item' at every position whose Item has that id and
\* leaves every other position unchanged; otherwise it is C with item'
\* appended.  The result is what the store holds.
C5_ReplaceOrAppend ==
    \A n \in 1..Len(output) :
        LET C == output[n].before
            R == output[n].after
            item == output[n].arg
            item2 == Fields(output[n].returned)
        IN /\ item2 = [item EXCEPT !.id = item2.id]
           /\ item.id # "" => item2.id = item.id
           /\ item.id = "" => (item2.id # "" /\ item2.id \notin IdsOf(C))
           /\ IF item2.id \in IdsOf(C)
              THEN /\ Len(R) = Len(C)
                   /\ \A k \in 1..Len(C) :
                         R[k] = IF C[k].id = item2.id THEN item2 ELSE C[k]
              ELSE R = Append(C, item2)
           /\ n = Len(output) =>
                 /\ FieldsOf(savedItems) = R
                 /\ FieldsOf(savedItemsRef) = R
                 /\ storage = stringify(savedItems)

\* an Item replaced in place, between two others that stay
C5_Witness ==
    \E n \in 1..Len(output) :
        LET C == output[n].before
            R == output[n].after
        IN /\ Len(C) = 2
           /\ C[1].id # C[2].id
           /\ C[2].id = output[n].arg.id
           /\ C[2] # output[n].arg
           /\ R = <<C[1], output[n].arg>>

\* C6 (as claimed): a second upsert of the same Item changes nothing.
C6_IdempotentAnyItem ==
    \A n \in 1..(Len(output) - 1) :
        output[n + 1].arg = output[n].arg => output[n + 1].after = output[n].after

\* C6 (amended): repeating upsert with the same Item changes nothing when the
\* Item's id is not empty, and repeating it with the Item the first call
\* returned changes nothing; with an empty id each call appends one more Item
\* under a new id.
C6_Idempotent ==
    \A n \in 1..(Len(output) - 1) :
        /\ (output[n + 1].arg = output[n].arg /\ output[n].arg.id # "") =>
              output[n + 1].after = output[n].after
        /\ output[n + 1].arg = Fields(output[n].returned) =>
              output[n + 1].after = output[n].after
        /\ (output[n + 1].arg = output[n].arg /\ output[n].arg.id = "") =>
              /\ Len(output[n + 1].after) = Len(output[n].after) + 1
              /\ output[n + 1].returned.id # output[n].returned.id

C6_Witness ==
    /\ Len(output) = 2
    /\ output[1].arg.id # ""
    /\ output[2].arg = output[1].arg
    /\ output[1].before # <<>>
    /\ output[1].after # output[1].before
    /\ output[2].after = output[1].after

(***************************************************************************)
(* loadSavedItems as a function: the construction of the App's state       *)
(* (useState and useRef initialisers) from any stored payload.             *)
(***************************************************************************)
\* the variables of the session that stay as constructed
Idle ==
    /\ current = createEmptyItem(1)
    /\ debouncedCurrent = current
    /\ hasMounted = FALSE
    /\ debouncePending = FALSE
    /\ lastArgs = NoItem
    /\ timerPending = FALSE
    /\ timerItem = NoItem
    /\ nanoCount = 0
    /\ ops = 0
    /\ curOrigin = "init"
    /\ editRefs = {}
    /\ autosaved = <<>>
    /\ superseded = {}
    /\ abandoned = {}
    /\ deletedCur = {}
    /\ newItemDraft = NoItem
    /\ dialogOpen = FALSE

idleVars == <<current, debouncedCurrent, hasMounted, debouncePending, lastArgs,
              timerPending, timerItem, nanoCount, ops, curOrigin, editRefs,
              autosaved, superseded, abandoned, deletedCur, newItemDraft, dialogOpen>>

LoadElems ==
    RawElems \cup
    { [t |-> "null"], [t |-> "number"], [t |-> "string"],
      [t |-> "object", f |-> [id |-> "p2", quantity |-> Infinity, setupFee |-> null]],
      [t |-> "object", f |-> [id |-> "p3", name |-> <<"B">>, profitPercent |-> 30]] }

LoadPayloads ==
    {[kind |-> k] : k \in {"absent", "empty", "malformed", "object", "number",
                           "string", "null", "boolean"}}
    \cup {[kind |-> "array", elems |-> q] : q \in SeqsUpTo(LoadElems, MaxStored)}

LoadInit ==
    /\ storage \in LoadPayloads
    /\ savedItems = <<>>
    /\ savedItemsRef = <<>>
    /\ nextRef = 2
    /\ input = NoItem
    /\ output = <<>>
    /\ Idle

\* useState(() => loadSavedItems()) and useRef(savedItems)
LoadCall ==
    /\ output = <<>>
    /\ savedItems' = loadSavedItems(storage, nextRef)
    /\ savedItemsRef' = savedItems'
    /\ nextRef' = nextRef + Len(savedItems')
    /\ output' = <<[raw |-> storage, returned |-> savedItems']>>
    /\ UNCHANGED <<storage, input>>
    /\ UNCHANGED idleVars

LoadNext == LoadCall

LoadSpec == LoadInit /\ [][LoadNext]_vars

\* C12: from a payload that is missing, empty, unparseable, or parsed to a
\* value that is not an array, loadSavedItems returns the empty Collection,
\* which is then the render-facing Collection and its mirror; the stored
\* payload is left as it was.
C12_LoadNeverFails ==
    \A n \in 1..Len(output) :
        output[n].raw.kind # "array" =>
            /\ output[n].returned = <<>>
            /\ savedItems = <<>>
            /\ savedItemsRef = <<>>
            /\ storage = output[n].raw

\* the App was constructed from a payload that parses to an object
C12_Witness ==
    /\ output # <<>>
    /\ output[1].raw.kind = "object"
    /\ savedItems = <<>>

\* C23 (as claimed): from a payload that parses to an array, loadSavedItems
\* returns one Item per element, in the same order, each the element with
\* its missing fields set to the defaults, whether the element is an object,
\* null, or a primitive.
C23_OneItemPerElement ==
    \A n \in 1..Len(output) :
        output[n].raw.kind = "array" =>
            /\ Len(output[n].returned) = Len(output[n].raw.elems)
            /\ \A i \in 1..Len(output[n].returned) :
                   Fields(output[n].returned[i]) =
                       Fields(Backfill(output[n].raw.elems[i], 0))

(***************************************************************************)
(* calculateTotals as a function: every Item whose numeric fields are      *)
(* whole numbers -1..MaxAmount or values that are not finite numbers,      *)
(* computed once, and once more after one input was raised.                *)
(***************************************************************************)
CalcInts == {100 * n : n \in (0 - 1)..MaxAmount}

CalcValues == CalcInts \cup {NaN, null, undefined, Infinity, NegInfinity}

ScenarioA ==
    [createEmptyItem(0) EXCEPT !.quantity = 300, !.pricePerItem = 1000,
                               !.profitPercent = 25]

CalcItems ==
    {[createEmptyItem(0) EXCEPT !.quantity = q, !.pricePerItem = p, !.setupFee = f,
                                !.shipping = h, !.profitPercent = r] :
        q \in CalcValues, p \in CalcValues, f \in CalcValues, h \in CalcValues,
        r \in PROFIT_OPTIONS}

CalcInit ==
    /\ input \in CalcItems \cup {ScenarioA}
    /\ output = <<>>
    /\ storage = [kind |-> "absent"]
    /\ savedItems = <<>>
    /\ savedItemsRef = <<>>
    /\ nextRef = 2
    /\ Idle

\* a render computes calculateTotals(item)
Calculate ==
    /\ output = <<>>
    /\ output' = <<[arg |-> input, totals |-> calculateTotals(input)]>>
    /\ UNCHANGED <<storage, savedItems, savedItemsRef, nextRef, input>>
    /\ UNCHANGED idleVars

\* the same Item with one input raised is computed next
CalculateRaised(field, v) ==
    /\ Len(output) = 1
    /\ isFinite(input[field])
    /\ v > input[field]
    /\ input' = [input EXCEPT ![field] = v]
    /\ output' = Append(output, [arg |-> input', totals |-> calculateTotals(input')])
    /\ UNCHANGED <<storage, savedItems, savedItemsRef, nextRef>>
    /\ UNCHANGED idleVars

CalcNext ==
    \/ Calculate
    \/ \E field \in NumericField, v \in CalcInts : CalculateRaised(field, v)
    \/ \E v \in PROFIT_OPTIONS : CalculateRaised("profitPercent", v)

CalcSpec == CalcInit /\ [][CalcNext]_vars

AllFinite(item) == \A field \in NumericField : isFinite(item[field])

AtLeastZero(x) == IF x > 0 THEN x ELSE 0

\* C15: for whole-number inputs and a rate of 0.2, 0.25 or 0.3, subtotal is
\* max(0,quantity)*max(0,pricePerItem) + max(0,setupFee) + max(0,shipping),
\* profit is subtotal*rate and total is subtotal + profit; quantity 3 at
\* price 10 with rate 0.25 gives 30, 7.5 and 37.5.
C15_TotalsFormula ==
    \A n \in 1..Len(output) :
        LET item == output[n].arg
            totals == output[n].totals
            sub == (AtLeastZero(item.quantity) * AtLeastZero(item.pricePerItem)) \div 100
                   + AtLeastZero(item.setupFee) + AtLeastZero(item.shipping)
            profit == (sub * item.profitPercent) \div 100
        IN /\ AllFinite(item) =>
                /\ totals.subtotal = sub
                /\ totals.profitValue = profit
                /\ totals.total = sub + profit
           /\ item = ScenarioA =>
                totals = [subtotal |-> 3000, profitValue |-> 750, total |-> 3750]

C15_Witness ==
    /\ output # <<>>
    /\ output[1].arg = ScenarioA
    /\ output[1].totals.total = 3750

\* C17: raising one of quantity, pricePerItem, setupFee, shipping or the rate
\* of an Item with whole-number inputs (negative ones included), the others
\* held, lowers none of subtotal, profit and total.
C17_Monotonic ==
    \A n \in 1..(Len(output) - 1) :
        (AllFinite(output[n].arg) /\ AllFinite(output[n + 1].arg)) =>
            /\ output[n + 1].totals.subtotal >= output[n].totals.subtotal
            /\ output[n + 1].totals.profitValue >= output[n].totals.profitValue
            /\ output[n + 1].totals.total >= output[n].totals.total

\* a negative quantity raised to a positive one, at a positive price
C17_Witness ==
    /\ Len(output) = 2
    /\ output[1].arg.quantity = -100
    /\ output[2].arg.quantity = 100
    /\ output[1].arg.pricePerItem = 200
    /\ output[2].totals.total > output[1].totals.total

\* the Item with every input that is not a finite number replaced by 0
ZeroedNonFinite(item) ==
    [field \in DOMAIN item |->
        IF field \in NumericField /\ ~isFinite(item[field]) THEN 0 ELSE item[field]]

\* C18 (as claimed): when an input is not a finite number, subtotal, profit
\* and total are the finite values computed with that input replaced by 0.
C18_NonFiniteAsZero ==
    \A n \in 1..Len(output) :
        ~AllFinite(output[n].arg) =>
            /\ output[n].totals = calculateTotals(ZeroedNonFinite(output[n].arg))
            /\ isFinite(output[n].totals.subtotal)
            /\ isFinite(output[n].totals.profitValue)
            /\ isFinite(output[n].totals.total)

(***************************************************************************)
(* Round trip: upsertItem on any Collection of at most MaxStored Items,    *)
(* then loadSavedItems, as the next session does, on the payload written.  *)
(***************************************************************************)
RoundTripPool ==
    UpsertPool \cup
    { [createEmptyItem(0) EXCEPT !.id = "p2", !.name = <<"B">>, !.quantity = Infinity],
      [createEmptyItem(0) EXCEPT !.id = "p3", !.name = <<>>, !.quantity = -100,
                                 !.setupFee = null, !.profitPercent = 30] }

RoundTripInit ==
    /\ \E q \in SeqsUpTo(RoundTripPool, MaxStored) :
          savedItems = [i \in 1..Len(q) |-> [q[i] EXCEPT !.ref = i + 1]]
    /\ savedItemsRef = savedItems
    /\ storage = stringify(savedItems)
    /\ \E item \in RoundTripPool : input = [item EXCEPT !.ref = Len(savedItems) + 2]
    /\ output = <<>>
    /\ nextRef = Len(savedItems) + 3
    /\ Idle

RoundTripUpsert == output = <<>> /\ UpsertCall(input)

\* the next session's useState(() => loadSavedItems()) and useRef(savedItems)
Reload ==
    /\ Len(output) = 1
    /\ savedItems' = loadSavedItems(storage, nextRef)
    /\ savedItemsRef' = savedItems'
    /\ nextRef' = nextRef + Len(savedItems')
    /\ output' = Append(output, [raw |-> storage, loaded |-> FieldsOf(savedItems')])
    /\ UNCHANGED <<storage, input>>
    /\ UNCHANGED idleVars

RoundTripNext == RoundTripUpsert \/ Reload

RoundTripSpec == RoundTripInit /\ [][RoundTripNext]_vars

\* The Collection read back holds `stored` at every position where upsert put the Item.
ReadBackAs(stored) ==
    LET item == output[1].arg
        id == output[1].returned.id
        R == output[1].after
        L == output[2].loaded
    IN /\ item.id # "" => id = item.id
       /\ item.id = "" => (id # "" /\ id \notin IdsOf(output[1].before))
       /\ Len(L) = Len(R)
       /\ \E k \in 1..Len(R) : R[k].id = id
       /\ \A k \in 1..Len(R) : R[k].id = id => L[k] = [stored EXCEPT !.id = id]

\* C16 (as claimed): for every Collection and every Item, the Collection
\* read back from the payload that upsert wrote holds, where the Item was
\* put, an Item equal to it in every field but the id, which is the Item's
\* id when it has one and a new non-empty id otherwise.
C16_RoundTripAnyItem == Len(output) = 2 => ReadBackAs(output[1].arg)

FiniteOrNull(item) ==
    \A field \in NumericField : item[field] \notin {NaN, Infinity, NegInfinity}

\* C16 (amended): the same for every Item whose numeric fields are finite
\* numbers; a field holding NaN or an infinity is read back as null.
C16_RoundTrip ==
    Len(output) = 2 =>
        /\ FiniteOrNull(output[1].arg) => ReadBackAs(output[1].arg)
        /\ ReadBackAs(jsonItem(output[1].arg))

\* an Item without id appended to a Collection of one Item and read back
\* under its new id
C16_Witness ==
    /\ Len(output) = 2
    /\ output[1].arg.id = ""
    /\ Len(output[1].before) = 1
    /\ Len(output[2].loaded) = 2
    /\ output[2].loaded[2] = [output[1].arg EXCEPT !.id = "n1"]

(***************************************************************************)
(* The edit handlers on a wider set of inputs, in a session that starts    *)
(* from no stored payload.                                                 *)
(***************************************************************************)
NotNumeric == {<<>>, <<"a", "b", "c">>, <<"1", ".", "2", ".", "3">>, <<"-">>}

WideNumberInputs ==
    NotNumeric \cup {<<"-", "1">>, <<"2", ".", "5">>, <<"I", "n", "f", "i", "n", "i", "t", "y">>}

WideNameInputs == {<<>>, <<" ">>, <<"A">>}

NotAnOption == {<<>>, <<"a", "b", "c">>, <<"0", ".", "5">>, <<"2", "5">>}

WideProfitInputs == NotAnOption \cup {<<"0", ".", "2", "5">>, <<"0", ".", "3">>}

EditInit == Init /\ storage = [kind |-> "absent"]

EditNext ==
    \/ MountEffect
    \/ \E field \in NumericField, value \in WideNumberInputs :
          handleNumberChange(field, value)
    \/ \E value \in WideNameInputs : handleNameChange(value)
    \/ \E value \in WideProfitInputs : handleProfitChange(value)

EditSpec == EditInit /\ [][EditNext]_vars

\* C19: an edit of the name with the empty string leaves the name
\* "Untitled"; an edit of a numeric field with an empty string or a string
\* that is not a number leaves the field 0; a profit selection that is not
\* one of the options leaves the rate 0.2; inputs that are a name, a number
\* or an option are stored as given; every handler accepts every input and
\* the Draft never holds an empty name, NaN or a rate outside the options.
C19_EditCoercions ==
    /\ [][/\ \A field \in NumericField, value \in NotNumeric :
               handleNumberChange(field, value) => current'[field] = 0
          /\ \A field \in NumericField :
               /\ handleNumberChange(field, <<"-", "1">>) => current'[field] = -100
               /\ handleNumberChange(field, <<"2", ".", "5">>) => current'[field] = 250
          /\ handleNameChange(<<>>) => current'.name = Untitled
          /\ \A value \in WideNameInputs \ {<<>>} :
               handleNameChange(value) => current'.name = value
          /\ \A value \in NotAnOption :
               handleProfitChange(value) => current'.profitPercent = 20
          /\ handleProfitChange(<<"0", ".", "2", "5">>) => current'.profitPercent = 25
          /\ handleProfitChange(<<"0", ".", "3">>) => current'.profitPercent = 30]_vars
    /\ [](/\ current.name # <<>>
          /\ \A field \in NumericField : current[field] \notin {NaN, null, undefined}
          /\ current.profitPercent \in PROFIT_OPTIONS
          /\ (hasMounted /\ ops < MaxOps) =>
                /\ \A field \in NumericField, value \in WideNumberInputs :
                      ENABLED handleNumberChange(field, value)
                /\ \A value \in WideNameInputs : ENABLED handleNameChange(value)
                /\ \A value \in WideProfitInputs : ENABLED handleProfitChange(value))

\* two edits, each with an input that is coerced, have left every field of
\* the anchored Draft at its default
C19_Witness ==
    /\ ops = 2
    /\ Cardinality(editRefs) = 2
    /\ Fields(current) = Fields([createEmptyItem(0) EXCEPT !.id = "n1"])

(***************************************************************************)
(* The manual-save variant: the same Item store and upsertItem, no debounce *)
(* and no effect; the Collection is written by Save item, by Add item in    *)
(* the creation dialog, and by Delete.  The handlers are modelled for every *)
(* Draft, also one without id, since handleSave and handleAddNew test       *)
(* canSave and canCreate themselves.  The dialog is modal: its handlers run *)
(* while it is shown and the page's handlers while it is not.               *)
(***************************************************************************)
ManualOps == MaxOps + 4

\* the state of the autosave variant, not part of this one
autosaveVars == <<debouncedCurrent, hasMounted, debouncePending, lastArgs,
                  timerPending, timerItem, editRefs, autosaved, superseded,
                  abandoned, deletedCur, input, output>>

\* names typed in the creation dialog: one is "untitled" but for case and
\* surrounding blanks
NewNameInputs == NameInputs \cup {<<" ", "U", "N", "T", "I", "T", "L", "E", "D", " ">>}

\* Mutant: the name is compared as typed, without trim() and toLowerCase().
isBlankNewItem_exactName(item) ==
    /\ item.id = ""
    /\ item.name = Untitled
    /\ item.quantity = 0
    /\ item.pricePerItem = 0
    /\ item.setupFee = 0
    /\ item.shipping = 0

isBlankNewItem(item) ==
    /\ item.id = ""
    /\ toLowerCase(trim(item.name)) = untitled
    /\ item.quantity = 0
    /\ item.pricePerItem = 0
    /\ item.setupFee = 0
    /\ item.shipping = 0

canSave == current.id # ""

canCreate == ~isBlankNewItem(newItemDraft)

ManualInit ==
    /\ storage \in StoredPayloads
    /\ storage.kind \in {"absent", "array"}
    /\ storage.kind = "array" => Len(storage.elems) = 1
    /\ current = createEmptyItem(1)
    /\ savedItems = loadSavedItems(storage, 2)
    /\ savedItemsRef = savedItems
    /\ newItemDraft = createEmptyItem(2 + Len(savedItems))
    /\ dialogOpen = FALSE
    /\ nextRef = 3 + Len(savedItems)
    /\ nanoCount = 0
    /\ ops = 0
    /\ curOrigin = "init"
    /\ debouncedCurrent = current
    /\ hasMounted = FALSE
    /\ debouncePending = FALSE
    /\ lastArgs = NoItem
    /\ timerPending = FALSE
    /\ timerItem = NoItem
    /\ editRefs = {}
    /\ autosaved = <<>>
    /\ superseded = {}
    /\ abandoned = {}
    /\ deletedCur = {}
    /\ input = NoItem
    /\ output = <<>>

\* Mutant: the edit gives a Draft without id a new one, as the autosave
\* variant does.
manual_Edit_anchors(next) ==
    /\ ~dialogOpen
    /\ ops < ManualOps
    /\ current' = [next EXCEPT !.ref = nextRef,
                               !.id = IF current.id # "" THEN current.id
                                      ELSE nanoid(nanoCount)]
    /\ nextRef' = nextRef + 1
    /\ nanoCount' = IF current.id # "" THEN nanoCount ELSE nanoCount + 1
    /\ ops' = ops + 1
    /\ curOrigin' = "edit"
    /\ UNCHANGED <<storage, savedItems, savedItemsRef, newItemDraft, dialogOpen>>
    /\ UNCHANGED autosaveVars

\* setCurrent((prev) => ({ ...prev, ... })) of the manual-save variant
manual_Edit(next) ==
    /\ ~dialogOpen
    /\ ops < ManualOps
    /\ current' = [next EXCEPT !.ref = nextRef]
    /\ nextRef' = nextRef + 1
    /\ ops' = ops + 1
    /\ curOrigin' = "edit"
    /\ UNCHANGED <<storage, savedItems, savedItemsRef, nanoCount, newItemDraft,
                   dialogOpen>>
    /\ UNCHANGED autosaveVars

manual_handleNumberChange(field, value) ==
    manual_Edit([current EXCEPT ![field] = NumberOrZero(value)])

manual_handleNameChange(value) ==
    manual_Edit([current EXCEPT !.name = IF value # <<>> THEN value ELSE Untitled])

manual_handleProfitChange(value) ==
    LET parsed == Number(value) IN
    manual_Edit([current EXCEPT !.profitPercent =
            IF ~parsed.nan /\ parsed.val \in PROFIT_OPTIONS THEN parsed.val ELSE 20])

\* setNewItemDraft((prev) => ({ ...prev, ... }))
NewEdit(next) ==
    /\ dialogOpen
    /\ ops < ManualOps
    /\ newItemDraft' = [next EXCEPT !.ref = nextRef]
    /\ nextRef' = nextRef + 1
    /\ ops' = ops + 1
    /\ curOrigin' = "newedit"
    /\ UNCHANGED <<storage, current, savedItems, savedItemsRef, nanoCount, dialogOpen>>
    /\ UNCHANGED autosaveVars

handleNewNumberChange(field, value) ==
    NewEdit([newItemDraft EXCEPT ![field] = NumberOrZero(value)])

handleNewNameChange(value) ==
    NewEdit([newItemDraft EXCEPT !.name = IF value # <<>> THEN value ELSE Untitled])

handleNewProfitChange(value) ==
    LET parsed == Number(value) IN
    NewEdit([newItemDraft EXCEPT !.profitPercent =
            IF ~parsed.nan /\ parsed.val \in PROFIT_OPTIONS THEN parsed.val ELSE 20])

\* item = savedItems.find(...); if (item) setCurrent(item).  Setting the
\* object the Draft already is changes nothing and is not a step.
manual_handleLoad(id) ==
    /\ ~dialogOpen
    /\ ops < ManualOps
    /\ IF \E i \in 1..Len(savedItems) : savedItems[i].id = id
       THEN /\ \E i \in 1..Len(savedItems) :
                /\ savedItems[i].id = id
                /\ \A j \in 1..(i - 1) : savedItems[j].id # id
                /\ savedItems[i].ref # current.ref
                /\ current' = savedItems[i]
            /\ curOrigin' = "load"
       ELSE UNCHANGED <<current, curOrigin>>
    /\ ops' = ops + 1
    /\ UNCHANGED <<storage, savedItems, savedItemsRef, nextRef, nanoCount,
                   newItemDraft, dialogOpen>>
    /\ UNCHANGED autosaveVars

manual_handleDelete(id) ==
    /\ ~dialogOpen
    /\ ops < ManualOps
    /\ persistItems(SelectSeq(savedItems, LAMBDA item : item.id # id))
    /\ ops' = ops + 1
    /\ curOrigin' = "delete"
    /\ IF current.id = id
       THEN /\ current' = createEmptyItem(nextRef)
            /\ nextRef' = nextRef + 1
       ELSE UNCHANGED <<current, nextRef>>
    /\ UNCHANGED <<nanoCount, newItemDraft, dialogOpen>>
    /\ UNCHANGED autosaveVars

\* setNewItemDraft(createEmptyItem()); showModal()
openCreateDialog ==
    /\ ~dialogOpen
    /\ ops < ManualOps
    /\ newItemDraft' = createEmptyItem(nextRef)
    /\ nextRef' = nextRef + 1
    /\ dialogOpen' = TRUE
    /\ ops' = ops + 1
    /\ curOrigin' = "open"
    /\ UNCHANGED <<storage, current, savedItems, savedItemsRef, nanoCount>>
    /\ UNCHANGED autosaveVars

\* the dialog's close event: setNewItemDraft(createEmptyItem()); r is the
\* identity of the new object
handleCreateDialogClose(r) ==
    /\ dialogOpen' = FALSE
    /\ newItemDraft' = createEmptyItem(r)

\* Cancel: close(), which fires the close event
closeCreateDialog ==
    /\ dialogOpen
    /\ ops < ManualOps
    /\ handleCreateDialogClose(nextRef)
    /\ nextRef' = nextRef + 1
    /\ ops' = ops + 1
    /\ curOrigin' = "close"
    /\ UNCHANGED <<storage, current, savedItems, savedItemsRef, nanoCount>>
    /\ UNCHANGED autosaveVars

\* Mutant: Save item without the canSave test.
handleSave_unguarded ==
    /\ ~dialogOpen
    /\ ops < ManualOps
    /\ ops' = ops + 1
    /\ curOrigin' = "save"
    /\ persistItems(upsertItem(savedItemsRef, current, nanoid(nanoCount), nextRef))
    /\ current' = nextItemOf(current, nanoid(nanoCount), nextRef)
    /\ nanoCount' = IF current.id # "" THEN nanoCount ELSE nanoCount + 1
    /\ nextRef' = nextRef + 1
    /\ UNCHANGED <<newItemDraft, dialogOpen>>
    /\ UNCHANGED autosaveVars

\* if (!canSave) return; saved = upsertItem(current); setCurrent(saved)
handleSave ==
    /\ ~dialogOpen
    /\ ops < ManualOps
    /\ ops' = ops + 1
    /\ curOrigin' = "save"
    /\ IF ~canSave
       THEN UNCHANGED <<storage, current, savedItems, savedItemsRef, nextRef, nanoCount>>
       ELSE /\ persistItems(upsertItem(savedItemsRef, current, nanoid(nanoCount), nextRef))
            /\ current' = nextItemOf(current, nanoid(nanoCount), nextRef)
            /\ nanoCount' = IF current.id # "" THEN nanoCount ELSE nanoCount + 1
            /\ nextRef' = nextRef + 1
    /\ UNCHANGED <<newItemDraft, dialogOpen>>
    /\ UNCHANGED autosaveVars

\* if (!canCreate) return; saved = upsertItem(newItemDraft); setCurrent(saved);
\* closeCreateDialog()
handleAddNew ==
    /\ dialogOpen
    /\ ops < ManualOps
    /\ ops' = ops + 1
    /\ curOrigin' = "add"
    /\ IF ~canCreate
       THEN UNCHANGED <<storage, current, savedItems, savedItemsRef, nextRef, nanoCount,
                        newItemDraft, dialogOpen>>
       ELSE /\ persistItems(upsertItem(savedItemsRef, newItemDraft, nanoid(nanoCount),
                                      nextRef))
            /\ current' = nextItemOf(newItemDraft, nanoid(nanoCount), nextRef)
            /\ nanoCount' = IF newItemDraft.id # "" THEN nanoCount ELSE nanoCount + 1
            /\ handleCreateDialogClose(nextRef + 1)
            /\ nextRef' = nextRef + 2
    /\ UNCHANGED autosaveVars

ManualNext ==
    \/ \E field \in NumericField, value \in NumberInputs :
          manual_handleNumberChange(field, value)
    \/ \E value \in NameInputs : manual_handleNameChange(value)
    \/ \E value \in ProfitInputs : manual_handleProfitChange(value)
    \/ \E field \in NumericField, value \in NumberInputs :
          handleNewNumberChange(field, value)
    \/ \E value \in NewNameInputs : handleNewNameChange(value)
    \/ \E value \in ProfitInputs : handleNewProfitChange(value)
    \/ \E id \in SavedIds : manual_handleLoad(id)
    \/ \E id \in SavedIds \cup {current.id} : manual_handleDelete(id)
    \/ openCreateDialog
    \/ closeCreateDialog
    \/ handleSave
    \/ handleAddNew

ManualSpec == ManualInit /\ [][ManualNext]_vars

\* an edit of the Draft
DraftEdit ==
    \/ \E field \in NumericField, value \in NumberInputs :
          manual_handleNumberChange(field, value)
    \/ \E value \in NameInputs : manual_handleNameChange(value)
    \/ \E value \in ProfitInputs : manual_handleProfitChange(value)

\* C30: in the manual-save variant an edit of the Draft leaves the Collection,
\* its mirror and the stored payload as they are, generates no id and keeps
\* the Draft's id, empty or not; a step that changes the Collection, its
\* mirror or the payload is a Save item, an Add item or a Delete; and Save
\* item on a Draft whose id is empty changes neither the Collection, nor the
\* payload, nor the Draft.
C30_ManualSave ==
    /\ [][DraftEdit =>
             /\ UNCHANGED <<savedItems, savedItemsRef, storage, nanoCount>>
             /\ current'.id = current.id]_vars
    /\ [][(savedItems' # savedItems \/ savedItemsRef' # savedItemsRef
              \/ storage' # storage) =>
             \/ handleSave
             \/ handleAddNew
             \/ \E id \in SavedIds \cup {current.id} : manual_handleDelete(id)]_vars
    /\ [][(handleSave /\ current.id = "") =>
             UNCHANGED <<savedItems, savedItemsRef, storage, current>>]_vars

\* With nothing stored, the first Draft was given quantity -1 and Save item
\* was pressed: the Draft still has no id and nothing was ever written.
C30_Witness ==
    /\ curOrigin = "save"
    /\ current.id = ""
    /\ current.quantity = 0 - 100
    /\ savedItems = <<>>
    /\ storage.kind = "absent"

\* C31: Add item on a new-item draft without id whose name is "untitled"
\* once trimmed and lower-cased and whose four numeric fields are 0, whatever
\* its profit rate, changes nothing: the Collection, its mirror, the payload,
\* the Draft, the new-item draft and the dialog stay as they are.  On any
\* other new-item draft it appends one Item, the draft's fields under a new
\* non-empty id that no Item of the Collection has, writes the Collection so
\* extended to the store, and makes that very Item the Draft.
C31_AddItem ==
    [][handleAddNew =>
          IF /\ newItemDraft.id = ""
             /\ toLowerCase(trim(newItemDraft.name)) = untitled
             /\ \A field \in NumericField : newItemDraft[field] = 0
          THEN UNCHANGED <<savedItems, savedItemsRef, storage, current, newItemDraft,
                           dialogOpen, nanoCount>>
          ELSE /\ Len(savedItems') = Len(savedItems) + 1
               /\ \A k \in 1..Len(savedItems) : savedItems'[k] = savedItems[k]
               /\ savedItems'[Len(savedItems')] = current'
               /\ current'.id # ""
               /\ current'.id \notin SavedIds
               /\ Fields(current') = [Fields(newItemDraft) EXCEPT !.id = current'.id]
               /\ savedItemsRef' = savedItems'
               /\ storage' = stringify(savedItems')]_vars

\* With nothing stored, an Item was added under the id n1 and became the
\* Draft; the dialog was opened again, the name " UNTITLED " typed and Add
\* item pressed: the dialog is still shown and the Collection holds the one
\* Item.
C31_Witness ==
    /\ curOrigin = "add"
    /\ dialogOpen
    /\ newItemDraft.name = <<" ", "U", "N", "T", "I", "T", "L", "E", "D", " ">>
    /\ Len(savedItems) = 1
    /\ savedItems[1].id = "n1"
    /\ current = savedItems[1]
    /\ storage = stringify(savedItems)

====
